---------------------------- MODULE Spec2Model ----------------------------
(***************************************************************************)
(* A model of the taxParser row-processing pipelines.                      *)
(*                                                                         *)
(* The repository holds several generations of the same program:           *)
(*   "dateless"  src/main.go            header without date, three taxes   *)
(*   "fixed"     src/unnamed/part_001   header with date, three taxes      *)
(*   "dynamic"   src/unnamed/part_005   header with date, taxes by name    *)
(*   "dual"      src/unnamed/part_004   as "dynamic", with a totals table  *)
(*   "parallel"  src/unnamed/part_003   goroutine per row, semaphore of 10 *)
(*                                                                         *)
(* Strings that the code parses (dates, charges, rates, every CSV field)   *)
(* are sequences of one-character strings, so that TrimSpace, Split, Atoi  *)
(* and ParseFloat are computed and not assumed.  Column names and          *)
(* jurisdiction names are only ever compared, and are plain strings.       *)
(* float64 values are fixed-point integers in units of 1/Scale; a product  *)
(* of two values is in units of 1/(Scale*Scale).                           *)
(***************************************************************************)
EXTENDS Integers, Sequences, FiniteSets, Bags, TLC

VARIABLES
    variant,    \* which generation of the program runs
    header,     \* first CSV record of the upload
    rows,       \* the data records of the upload, in file order
    now,        \* the wall clock read by time.Now()
    pc,         \* position of processCSV (sequential generations)
    idx,        \* number of data records read so far by reader.Read()
    cur,        \* the row being looked up while the request is in flight
    records,    \* processCSV's local slice of TaxRecord
    ret,        \* what processCSV returned: [records, err]
    requests,   \* every request sent to the rate service, in order
    ppc,        \* position of the main goroutine (parallel generation)
    spawned,    \* number of data rows the spawning loop has passed
    semaphore,  \* number of tokens in the semaphore channel
    wg,         \* the WaitGroup counter
    workers,    \* bag of running goroutines: [st, row]
    results,    \* content of the buffered results channel
    closed,     \* whether close(results) has run
    out,        \* the rows written to the output CSV after the header
    hpc,        \* position of the code that calls processCSV and writes
    report,     \* the report written for the upload: [header, rows]
    totals,     \* the rows of due_by_jurisdiction.csv after its header
    prev        \* what the previous run over the same upload wrote

vars == <<variant, header, rows, now, pc, idx, cur, records, ret, requests,
          ppc, spawned, semaphore, wg, workers, results, closed, out,
          hpc, report, totals, prev>>

envVars == <<variant, header, rows, now>>

seqVars == <<pc, idx, cur, records, ret, requests>>

parVars == <<ppc, spawned, semaphore, wg, workers, results, closed, out>>

repVars == <<hpc, report, totals, prev>>

-----------------------------------------------------------------------------
(* Bounds of the model.                                                    *)

\* longest upload (data rows) with freely mixed rows, sequential pipelines
MaxRows == 2

\* longest upload (data rows) with freely mixed rows, parallel pipeline
MaxParRows == 2

\* longest upload of identical rows, parallel pipeline (above maxConcurrent)
MaxBatch == 11

\* most "/"-separated parts of a generated date
MaxParts == 4

\* longest upload (data rows) whose report is written
MaxRepRows == 2

-----------------------------------------------------------------------------
(* Strings.                                                                *)

Digits == {"0", "1", "2", "3", "4", "5", "6", "7", "8", "9"}

\* the value of a decimal digit
DigitVal(c) ==
    CASE c = "0" -> 0 [] c = "1" -> 1 [] c = "2" -> 2 [] c = "3" -> 3
      [] c = "4" -> 4 [] c = "5" -> 5 [] c = "6" -> 6 [] c = "7" -> 7
      [] c = "8" -> 8 [] c = "9" -> 9

\* unicode.IsSpace on the characters the inputs use
IsSpace(c) == c \in {" ", "\t"}

RECURSIVE TrimLeft(_)
TrimLeft(s) ==
    IF s # <<>> /\ IsSpace(Head(s)) THEN TrimLeft(Tail(s)) ELSE s

RECURSIVE TrimRight(_)
TrimRight(s) ==
    IF s # <<>> /\ IsSpace(s[Len(s)])
    THEN TrimRight(SubSeq(s, 1, Len(s) - 1))
    ELSE s

\* strings.TrimSpace
TrimSpace(s) == TrimRight(TrimLeft(s))

\* strings.Split(s, sep) for a one-character sep: always at least one part
RECURSIVE Split(_, _)
Split(s, sep) ==
    IF \E i \in 1..Len(s) : s[i] = sep
    THEN LET i == CHOOSE k \in 1..Len(s) :
                      s[k] = sep /\ \A j \in 1..(k - 1) : s[j] # sep
         IN  <<SubSeq(s, 1, i - 1)>> \o Split(SubSeq(s, i + 1, Len(s)), sep)
    ELSE <<s>>

\* the decimal value of a sequence of digits
RECURSIVE DigitsVal(_)
DigitsVal(s) ==
    IF s = <<>> THEN 0
    ELSE 10 * DigitsVal(SubSeq(s, 1, Len(s) - 1)) + DigitVal(s[Len(s)])

AllDigits(s) == \A i \in 1..Len(s) : s[i] \in Digits

\* a string without its leading sign, and the sign
Unsigned(s) == IF s # <<>> /\ s[1] \in {"+", "-"} THEN Tail(s) ELSE s

SignOf(s) == IF s # <<>> /\ s[1] = "-" THEN -1 ELSE 1

\* strconv.Atoi: an optional sign and at least one digit, nothing else
Atoi(s) ==
    LET d == Unsigned(s)
    IN  IF d # <<>> /\ AllDigits(d)
        THEN [ok |-> TRUE, val |-> SignOf(s) * DigitsVal(d)]
        ELSE [ok |-> FALSE, val |-> 0]

\* the fixed-point unit of a float64: 1/Scale
Scale == 10000

RECURSIVE Pow10(_)
Pow10(n) == IF n = 0 THEN 1 ELSE 10 * Pow10(n - 1)

\* number of fractional digits kept: Scale = 10^FracDigits
FracDigits == CHOOSE n \in 0..9 : Pow10(n) = Scale

\* the fraction digits of a decimal as a multiple of 1/Scale
FracVal(f) ==
    IF Len(f) >= FracDigits
    THEN DigitsVal(SubSeq(f, 1, FracDigits))
    ELSE DigitsVal(f) * Pow10(FracDigits - Len(f))

\* strconv.ParseFloat(s, 64) on strings over digits, sign, ".", space, "/"
\* and the letters the inputs use: sign? digits? ("." digits?)? with a digit
ParseFloat(s) ==
    LET d     == Unsigned(s)
        parts == Split(d, ".")
        ip    == parts[1]
        fp    == IF Len(parts) = 2 THEN parts[2] ELSE <<>>
    IN  IF /\ Len(parts) <= 2
           /\ AllDigits(ip) /\ AllDigits(fp)
           /\ Len(ip) + Len(fp) >= 1
        THEN [ok |-> TRUE,
              val |-> SignOf(s) * (DigitsVal(ip) * Scale + FracVal(fp))]
        ELSE [ok |-> FALSE, val |-> 0]

\* strings.Join(parts, sep)
RECURSIVE Join(_, _)
Join(parts, sep) ==
    IF parts = <<>> THEN <<>>
    ELSE IF Len(parts) = 1 THEN parts[1]
    ELSE parts[1] \o <<sep>> \o Join(Tail(parts), sep)

-----------------------------------------------------------------------------
(* The rate service (mulesoft.cpa.texas.gov), as the pipelines see it.     *)
(* The answer to a request is a function of the street it asks about.      *)

Entry(name, type, rate) == [JurisName |-> name, JurisType |-> type, JurisRate |-> rate]

StreetOk == <<"1">>

StreetNamed == <<"2">>

Street500 == <<"3">>

StreetNoState == <<"4">>

StreetBadJSON == <<"5">>

StreetNetErr == <<"6">>

Street404 == <<"7">>

StreetEmpty == <<"8">>

StreetAllNA == <<"9">>

StreetStateZero == <<"1", "0">>

StreetStateNA == <<"1", "1">>

StreetRural == <<"1", "2">>

Street201 == <<"1", "3">>

Streets ==
    {StreetOk, StreetNamed, Street500, StreetNoState, StreetBadJSON, StreetNetErr,
     Street404, StreetEmpty, StreetAllNA, StreetStateZero, StreetStateNA,
     StreetRural, Street201}

Rate0625 == <<"0", ".", "0", "6", "2", "5">>

Rate0050 == <<"0", ".", "0", "0", "5", "0">>

Rate0200 == <<"0", ".", "0", "2", "0", "0">>

Rate01 == <<"0", ".", "0", "1">>

RateNA == <<"n", "/", "a">>

RateZero == <<"0", ".", "0", "0", "0", "0">>

\* client.Do and io.ReadAll of the answer: a transport error, or a status
\* with a body that is JSON or not; TAXRATES is what json.Unmarshal gives
HTTPGet(street) ==
    CASE street = StreetOk ->
            [sent |-> TRUE, StatusCode |-> 200, json |-> TRUE,
             TaxRates |-> << Entry("TEXAS", "STATE", Rate0625),
                             Entry("TRAVIS CO", "COUNTY", Rate0050),
                             Entry("AUSTIN", "CITY", Rate0200) >>]
      [] street = StreetNamed ->
            [sent |-> TRUE, StatusCode |-> 200, json |-> TRUE,
             TaxRates |-> << Entry("DALLAS", "CITY", Rate01),
                             Entry("DALLAS MTA", "TRANSIT", Rate01),
                             Entry("DALLAS CO", "COUNTY", RateNA),
                             Entry("TEXAS", "STATE", Rate0625) >>]
      [] street = Street500 ->
            [sent |-> TRUE, StatusCode |-> 500, json |-> TRUE,
             TaxRates |-> << Entry("TEXAS", "STATE", Rate0625) >>]
      [] street = StreetNoState ->
            [sent |-> TRUE, StatusCode |-> 200, json |-> TRUE,
             TaxRates |-> << Entry("AUSTIN", "CITY", Rate0200) >>]
      [] street = StreetBadJSON ->
            [sent |-> TRUE, StatusCode |-> 200, json |-> FALSE, TaxRates |-> <<>>]
      [] street = Street404 ->
            [sent |-> TRUE, StatusCode |-> 404, json |-> FALSE, TaxRates |-> <<>>]
      [] street = StreetEmpty ->
            [sent |-> TRUE, StatusCode |-> 200, json |-> TRUE, TaxRates |-> <<>>]
      [] street = StreetAllNA ->
            [sent |-> TRUE, StatusCode |-> 200, json |-> TRUE,
             TaxRates |-> << Entry("TEXAS", "STATE", RateNA),
                             Entry("AUSTIN", "CITY", <<>>) >>]
      [] street = StreetStateZero ->
            [sent |-> TRUE, StatusCode |-> 200, json |-> TRUE,
             TaxRates |-> << Entry("TEXAS", "STATE", RateZero),
                             Entry("TRAVIS CO", "COUNTY", Rate0050),
                             Entry("AUSTIN", "CITY", Rate0200) >>]
      [] street = StreetStateNA ->
            [sent |-> TRUE, StatusCode |-> 200, json |-> TRUE,
             TaxRates |-> << Entry("AUSTIN", "CITY", Rate0200),
                             Entry("TEXAS", "STATE", RateNA),
                             Entry("TRAVIS CO", "COUNTY", Rate0050) >>]
      [] street = StreetRural ->
            [sent |-> TRUE, StatusCode |-> 200, json |-> TRUE,
             TaxRates |-> << Entry("TEXAS", "STATE", Rate0625),
                             Entry("ESD 4", "SPD", Rate01) >>]
      [] street = Street201 ->
            [sent |-> TRUE, StatusCode |-> 201, json |-> TRUE,
             TaxRates |-> << Entry("TEXAS", "STATE", Rate0625) >>]
      [] OTHER ->
            [sent |-> FALSE, StatusCode |-> 0, json |-> FALSE, TaxRates |-> <<>>]

-----------------------------------------------------------------------------
(* Errors and the lookups of the sequential generations.                   *)

Error(kind, client) == [kind |-> kind, client |-> client]

NoErr == Error("nil", <<>>)

\* string(body): what the answer holds, JSON or not
Body(resp) == [json |-> resp.json, TaxRates |-> resp.TaxRates]

\* fmt.Errorf("unexpected status code: %d - %s", resp.StatusCode, string(body))
StatusError(status, body) ==
    [kind |-> "unexpected status code", client |-> <<>>,
     status |-> status, body |-> body]

NoRates == [j \in {} |-> 0]

\* RatesByType where an entry of any other type counts as a CITY entry
RECURSIVE RatesByType_AnyType(_, _)
RatesByType_AnyType(entries, acc) ==
    IF entries = <<>> THEN acc
    ELSE LET e == Head(entries)
             r == ParseFloat(e.JurisRate)
             t == IF e.JurisType \in {"STATE", "COUNTY"} THEN e.JurisType ELSE "CITY"
         IN  RatesByType_AnyType(Tail(entries),
                 IF r.ok THEN [acc EXCEPT ![t] = r.val] ELSE acc)

\* the three rates after the loop over taxData.TaxRates: an entry whose rate
\* does not parse is skipped, a later entry of a type replaces an earlier one
RECURSIVE RatesByType(_, _)
RatesByType(entries, acc) ==
    IF entries = <<>> THEN acc
    ELSE LET e == Head(entries)
             r == ParseFloat(e.JurisRate)
         IN  RatesByType(Tail(entries),
                 IF r.ok /\ e.JurisType \in {"STATE", "COUNTY", "CITY"}
                 THEN [acc EXCEPT ![e.JurisType] = r.val]
                 ELSE acc)

\* scrapeTaxRatesFixed without the check of the state rate
scrapeTaxRatesFixed_AnyState(street) ==
    LET resp  == HTTPGet(street)
        rates == RatesByType(resp.TaxRates,
                             [t \in {"STATE", "COUNTY", "CITY"} |-> 0])
        failWith(e) == [err |-> e, cityRate |-> 0,
                        countyRate |-> 0, stateRate |-> 0]
        fail(kind) == failWith(Error(kind, <<>>))
    IN  IF ~resp.sent THEN fail("failed to fetch tax rates")
        ELSE IF resp.StatusCode # 200
        THEN failWith(StatusError(resp.StatusCode, Body(resp)))
        ELSE IF ~resp.json THEN fail("failed to parse JSON")
        ELSE [err |-> NoErr, cityRate |-> rates["CITY"],
              countyRate |-> rates["COUNTY"], stateRate |-> rates["STATE"]]

\* scrapeTaxRates of the three-field generations: (city, county, state, err)
scrapeTaxRatesFixed(street) ==
    LET resp  == HTTPGet(street)
        rates == RatesByType(resp.TaxRates,
                             [t \in {"STATE", "COUNTY", "CITY"} |-> 0])
        failWith(e) == [err |-> e, cityRate |-> 0,
                        countyRate |-> 0, stateRate |-> 0]
        fail(kind) == failWith(Error(kind, <<>>))
    IN  IF ~resp.sent THEN fail("failed to fetch tax rates")
        ELSE IF resp.StatusCode # 200
        THEN failWith(StatusError(resp.StatusCode, Body(resp)))
        ELSE IF ~resp.json THEN fail("failed to parse JSON")
        ELSE IF rates["STATE"] = 0 THEN fail("no state tax rate found")
        ELSE [err |-> NoErr, cityRate |-> rates["CITY"],
              countyRate |-> rates["COUNTY"], stateRate |-> rates["STATE"]]

\* taxRates[rate.JurisName] = r
Put(m, k, v) == [x \in (DOMAIN m) \cup {k} |-> IF x = k THEN v ELSE m[x]]

\* RatesByName where a rate that does not parse ends the loop
RECURSIVE RatesByName_StopAtBadRate(_, _)
RatesByName_StopAtBadRate(entries, acc) ==
    IF entries = <<>> THEN acc
    ELSE LET e == Head(entries)
             r == ParseFloat(e.JurisRate)
         IN  IF r.ok
             THEN RatesByName_StopAtBadRate(Tail(entries), Put(acc, e.JurisName, r.val))
             ELSE acc

\* the map after the loop over taxData.TaxRates
RECURSIVE RatesByName(_, _)
RatesByName(entries, acc) ==
    IF entries = <<>> THEN acc
    ELSE LET e == Head(entries)
             r == ParseFloat(e.JurisRate)
         IN  RatesByName(Tail(entries),
                 IF r.ok THEN Put(acc, e.JurisName, r.val) ELSE acc)

\* scrapeTaxRatesDynamic with json.Unmarshal before the check of the status
scrapeTaxRatesDynamic_BodyFirst(street) ==
    LET resp  == HTTPGet(street)
        rates == RatesByName(resp.TaxRates, NoRates)
        failWith(e) == [err |-> e, taxRates |-> NoRates]
        fail(kind) == failWith(Error(kind, <<>>))
    IN  IF ~resp.sent THEN fail("failed to fetch tax rates")
        ELSE IF ~resp.json THEN fail("failed to parse JSON")
        ELSE IF resp.StatusCode # 200
        THEN failWith(StatusError(resp.StatusCode, Body(resp)))
        ELSE IF DOMAIN rates = {} THEN fail("no tax rates found")
        ELSE [err |-> NoErr, taxRates |-> rates]

\* scrapeTaxRatesDynamic without the check of len(taxRates)
scrapeTaxRatesDynamic_AllowEmpty(street) ==
    LET resp  == HTTPGet(street)
        rates == RatesByName(resp.TaxRates, NoRates)
        failWith(e) == [err |-> e, taxRates |-> NoRates]
        fail(kind) == failWith(Error(kind, <<>>))
    IN  IF ~resp.sent THEN fail("failed to fetch tax rates")
        ELSE IF resp.StatusCode # 200
        THEN failWith(StatusError(resp.StatusCode, Body(resp)))
        ELSE IF ~resp.json THEN fail("failed to parse JSON")
        ELSE [err |-> NoErr, taxRates |-> rates]

\* scrapeTaxRates of the dynamic-column generation: (taxRates, err)
scrapeTaxRatesDynamic(street) ==
    LET resp  == HTTPGet(street)
        rates == RatesByName(resp.TaxRates, NoRates)
        failWith(e) == [err |-> e, taxRates |-> NoRates]
        fail(kind) == failWith(Error(kind, <<>>))
    IN  IF ~resp.sent THEN fail("failed to fetch tax rates")
        ELSE IF resp.StatusCode # 200
        THEN failWith(StatusError(resp.StatusCode, Body(resp)))
        ELSE IF ~resp.json THEN fail("failed to parse JSON")
        ELSE IF DOMAIN rates = {} THEN fail("no tax rates found")
        ELSE [err |-> NoErr, taxRates |-> rates]

-----------------------------------------------------------------------------
(* Uploads.                                                                *)

ExpectedDate == <<"client", "date", "charge", "street address", "city", "State", "zip code">>

ExpectedDateless == <<"client", "charge", "street address", "city", "State", "zip code">>

\* the `expected` slice of each generation's processCSV
expected(v) == IF v = "dateless" THEN ExpectedDateless ELSE ExpectedDate

HasDate(v) == v # "dateless"

\* the generations whose TaxRecord holds Taxes map[string]float64
ByName(v) == v \in {"dynamic", "dual"}

\* a data row before it is written as a CSV record
Case(client, date, charge, street) ==
    [client |-> client, date |-> date, charge |-> charge, street |-> street]

CityField == <<"A", "u", "s">>

StateField == <<"T", "X">>

ZipField == <<"7", "8">>

\* the CSV record of a case under a header with or without the date column
Row(c, dated) ==
    IF dated
    THEN <<c.client, c.date, c.charge, c.street, CityField, StateField, ZipField>>
    ELSE <<c.client, c.charge, c.street, CityField, StateField, ZipField>>

Date(m, d, y) == Join(<<m, d, y>>, "/")

RowCases ==
    { Case(<<"J">>, Date(<<"0","2">>, <<"2","2">>, <<"2","0","2","5">>),
           <<"1","0","0",".","0","0">>, StreetOk),
      Case(<<" ", "K">>, <<" ">> \o Date(<<"1","1">>, <<"3","1">>, <<"2","0","2","4">>),
           <<" ", "8", ".", "5", " ">>, StreetNamed),
      Case(<<"L">>, Date(<<"1","3">>, <<"0","1">>, <<"2","0","2","5">>),
           <<"4","0">>, StreetOk),
      Case(<<"M">>, Date(<<"0","7">>, <<"0","4">>, <<"2","0","2","5">>),
           <<"a","b">>, StreetOk),
      Case(<<"N">>, Date(<<"0","4">>, <<"3","1">>, <<"2","0","2","6">>),
           <<"-","5">>, StreetOk),
      Case(<<"O">>, Date(<<"0","5">>, <<"1","5">>, <<"2","0","2","5">>),
           <<"4","0">>, Street500),
      Case(<<"P">>, Date(<<"0","8">>, <<"0","1">>, <<"2","0","2","5">>),
           <<"4","0">>, StreetNoState),
      Case(<<"Q">>, Date(<<"1","0">>, <<"1","0">>, <<"2","0","2","5">>),
           <<"4","0">>, StreetBadJSON),
      Case(<<"R">>, Date(<<"0","6">>, <<"3","0">>, <<"2","0","0","0">>),
           <<"4","0">>, StreetNetErr) }

\* sequences over S of length at most n
SeqsUpTo(S, n) == UNION { [1..k -> S] : k \in 0..n }

\* the clock: time.Now()
NowSamples == { [month |-> 2, year |-> 2025], [month |-> 8, year |-> 2026] }

-----------------------------------------------------------------------------
(* processCSV of the sequential generations.                               *)

\* equal without the comparison of the lengths
equal_NoLen(a, b) ==
    \A i \in 1..Len(a) : i <= Len(b) => a[i] = b[i]

\* func equal(a, b []string) bool
equal(a, b) ==
    /\ Len(a) = Len(b)
    /\ \A i \in 1..Len(a) : a[i] = b[i]

Nil == <<>>

NoCur == [client |-> <<>>, charge |-> 0, rec |-> <<>>]

\* for i := range row { row[i] = strings.TrimSpace(row[i]) }
TrimRow(row) == [i \in 1..Len(row) |-> TrimSpace(row[i])]

\* DateError with a calendar check of the day: February has 29 days at most
DateError_Calendar(date) ==
    LET dateParts == Split(date, "/")
    IN  IF Len(dateParts) # 3 THEN "invalid date format"
        ELSE LET month == Atoi(dateParts[1])
                 day   == Atoi(dateParts[2])
                 year  == Atoi(dateParts[3])
             IN  IF ~month.ok \/ month.val < 1 \/ month.val > 12
                 THEN "invalid month in date"
                 ELSE IF ~day.ok \/ day.val < 1 \/ day.val > 31
                         \/ (month.val = 2 /\ day.val > 29)
                 THEN "invalid day in date"
                 ELSE IF ~year.ok \/ year.val < 2000
                 THEN "invalid year in date"
                 ELSE "nil"

\* the four checks of the date field, in the order of the code
DateError(date) ==
    LET dateParts == Split(date, "/")
    IN  IF Len(dateParts) # 3 THEN "invalid date format"
        ELSE LET month == Atoi(dateParts[1])
                 day   == Atoi(dateParts[2])
                 year  == Atoi(dateParts[3])
             IN  IF ~month.ok \/ month.val < 1 \/ month.val > 12
                 THEN "invalid month in date"
                 ELSE IF ~day.ok \/ day.val < 1 \/ day.val > 31
                 THEN "invalid day in date"
                 ELSE IF ~year.ok \/ year.val < 2000
                 THEN "invalid year in date"
                 ELSE "nil"

MonthOf(date) == Atoi(Split(date, "/")[1]).val

YearOf(date) == Atoi(Split(date, "/")[3]).val

\* Quarter without the -1
Quarter_OffByOne(month) == month \div 3 + 1

\* quarter := (month-1)/3 + 1
Quarter(month) == (month - 1) \div 3 + 1

\* the quarter and year parameters of the request for a row
Period(v, row) ==
    IF HasDate(v)
    THEN [quarter |-> Quarter(MonthOf(row[2])), year |-> YearOf(row[2])]
    ELSE [quarter |-> 1, year |-> now.year]

\* url.Values of scrapeTaxRates
Request(street, city, state, zip, period) ==
    [street |-> street, city |-> city, state |-> state, zipcode |-> zip,
     quarter |-> period.quarter, year |-> period.year]

\* rec := TaxRecord{...} before the taxes are known
NewRecord(v, row, charge) ==
    IF HasDate(v)
    THEN [Client |-> row[1], Date |-> row[2], Charge |-> charge,
          Street |-> row[4], City |-> row[5], State |-> row[6], Zip |-> row[7]]
    ELSE [Client |-> row[1], Date |-> <<>>, Charge |-> charge,
          Street |-> row[3], City |-> row[4], State |-> row[5], Zip |-> row[6]]

\* Taxes computed from the rates of the first record of the run
Taxes_FirstRates(v, charge, street) ==
    LET st == IF records = <<>> THEN street ELSE records[1].Street
    IN  IF ByName(v)
        THEN LET taxRates == scrapeTaxRatesDynamic(st).taxRates
             IN  [juris \in DOMAIN taxRates |-> charge * taxRates[juris]]
        ELSE LET r == scrapeTaxRatesFixed(st)
             IN  [CityTax |-> charge * r.cityRate,
                  CountyTax |-> charge * r.countyRate,
                  StateTax |-> charge * r.stateRate]

\* rec.Taxes / rec.CityTax, rec.CountyTax, rec.StateTax of a successful lookup
Taxes(v, charge, street) ==
    IF ByName(v)
    THEN LET taxRates == scrapeTaxRatesDynamic(street).taxRates
         IN  [juris \in DOMAIN taxRates |-> charge * taxRates[juris]]
    ELSE LET r == scrapeTaxRatesFixed(street)
         IN  [CityTax |-> charge * r.cityRate,
              CountyTax |-> charge * r.countyRate,
              StateTax |-> charge * r.stateRate]

LookupErr(v, street) ==
    IF ByName(v) THEN scrapeTaxRatesDynamic(street).err
    ELSE scrapeTaxRatesFixed(street).err

\* ReturnErr that hands back the records gathered so far
ReturnErr_Partial(kind, client) ==
    /\ ret' = [records |-> records, err |-> Error(kind, client)]
    /\ pc' = "failed"

\* return nil, err
ReturnErr(kind, client) ==
    /\ ret' = [records |-> Nil, err |-> Error(kind, client)]
    /\ pc' = "failed"

\* header, err := reader.Read(); if !equal(header, expected) { return nil, ... }
ReadHeader ==
    /\ pc = "start"
    /\ IF header = <<>>
       THEN ReturnErr("EOF", <<>>)
       ELSE IF ~equal(header, expected(variant))
       THEN ReturnErr("invalid CSV header", <<>>)
       ELSE pc' = "read" /\ ret' = ret
    /\ UNCHANGED <<idx, cur, records, requests>>
    /\ UNCHANGED <<envVars, parVars, repVars>>

\* row, err := reader.Read(); if err == io.EOF { break }; return records, nil
ReadEOF ==
    /\ pc = "read"
    /\ idx = Len(rows)
    /\ ret' = [records |-> records, err |-> NoErr]
    /\ pc' = "done"
    /\ UNCHANGED <<idx, cur, records, requests>>
    /\ UNCHANGED <<envVars, parVars, repVars>>

\* one pass of the loop body up to the call of client.Do
ReadRow ==
    /\ pc = "read"
    /\ idx < Len(rows)
    /\ idx' = idx + 1
    /\ LET raw == rows[idx + 1]
           row == TrimRow(raw)
           dateErr == IF HasDate(variant) THEN DateError(row[2]) ELSE "nil"
           chargeField == IF HasDate(variant) THEN row[3] ELSE row[2]
           charge == ParseFloat(chargeField)
           rec == NewRecord(variant, row, charge.val)
       IN  IF Len(raw) # Len(header)
           THEN /\ ReturnErr("wrong number of fields", <<>>)
                /\ UNCHANGED <<cur, requests>>
           ELSE IF dateErr # "nil"
           THEN /\ ReturnErr(dateErr, row[1])
                /\ UNCHANGED <<cur, requests>>
           ELSE IF ~charge.ok
           THEN /\ ReturnErr("invalid charge", row[1])
                /\ UNCHANGED <<cur, requests>>
           ELSE /\ cur' = [client |-> row[1], charge |-> charge.val, rec |-> rec]
                /\ requests' = Append(requests,
                       Request(rec.Street, rec.City, rec.State, rec.Zip,
                               Period(variant, row)))
                /\ pc' = "lookup"
                /\ ret' = ret
    /\ UNCHANGED records
    /\ UNCHANGED <<envVars, parVars, repVars>>

\* LookupReturn that sends the request once more after a first failure
LookupReturn_Retry ==
    /\ pc = "lookup"
    /\ LET e == LookupErr(variant, cur.rec.Street)
       IN  IF e # NoErr /\ Len(requests) <= idx
           THEN /\ requests' = Append(requests, requests[Len(requests)])
                /\ UNCHANGED <<pc, ret, cur, records>>
           ELSE IF e # NoErr
           THEN /\ ReturnErr("error scraping tax rates", cur.client)
                /\ cur' = NoCur
                /\ UNCHANGED <<records, requests>>
           ELSE /\ records' = Append(records,
                       cur.rec @@
                       [Taxes |-> Taxes(variant, cur.charge, cur.rec.Street)])
                /\ pc' = "read"
                /\ ret' = ret
                /\ cur' = NoCur
                /\ UNCHANGED requests
    /\ UNCHANGED idx
    /\ UNCHANGED <<envVars, parVars, repVars>>

\* the rest of the loop body, from the return of scrapeTaxRates
LookupReturn ==
    /\ pc = "lookup"
    /\ LET e == LookupErr(variant, cur.rec.Street)
       IN  IF e # NoErr
           THEN /\ ReturnErr("error scraping tax rates", cur.client)
                /\ UNCHANGED records
           ELSE /\ records' = Append(records,
                       cur.rec @@
                       [Taxes |-> Taxes(variant, cur.charge, cur.rec.Street)])
                /\ pc' = "read"
                /\ ret' = ret
    /\ cur' = NoCur
    /\ UNCHANGED <<idx, requests>>
    /\ UNCHANGED <<envVars, parVars, repVars>>

-----------------------------------------------------------------------------
(* Formatting.                                                             *)

DigitChar(d) == <<"0", "1", "2", "3", "4", "5", "6", "7", "8", "9">>[d + 1]

\* strconv.Itoa of a natural number
RECURSIVE Itoa(_)
Itoa(n) == IF n < 10 THEN <<DigitChar(n)>> ELSE Itoa(n \div 10) \o <<DigitChar(n % 10)>>

\* fmt.Sprintf("%.2f", x/denom): the nearest hundredth, sign first
Sprintf2f(x, denom) ==
    LET a     == IF x < 0 THEN -x ELSE x
        unit  == denom \div 100
        cents == (a + unit \div 2) \div unit
    IN  (IF x < 0 THEN <<"-">> ELSE <<>>)
        \o Itoa(cents \div 100)
        \o <<".", DigitChar((cents \div 10) % 10), DigitChar(cents % 10)>>

-----------------------------------------------------------------------------
(* The parallel generation: the GIS page, scrapeTaxRates and processCSV.   *)

\* maxConcurrent = 10
maxConcurrent == 10

AddrOk == <<"a">>

Addr500 == <<"b">>

AddrNetErr == <<"c">>

AddrPartial == <<"d">>

AddrCut == <<"e">>

Rate0075 == <<"0", ".", "0", "0", "7", "5">>

Rate0825 == <<" ", "0", ".", "0", "8", "2", "5", " ">>

\* client.Do(req) and goquery.NewDocumentFromReader(resp.Body): a transport
\* error, or a status and the text of the three elements (empty when the
\* page has no such element)
HTTPPost(address) ==
    CASE address = AddrOk ->
            [sent |-> TRUE, doc |-> TRUE, StatusCode |-> 200,
             local |-> Rate01, county |-> Rate0075, state |-> Rate0625]
      [] address = Addr500 ->
            [sent |-> TRUE, doc |-> TRUE, StatusCode |-> 500,
             local |-> <<>>, county |-> <<>>, state |-> <<>>]
      [] address = AddrPartial ->
            [sent |-> TRUE, doc |-> TRUE, StatusCode |-> 200,
             local |-> Rate01, county |-> RateNA, state |-> Rate0825]
      [] address = AddrCut ->
            [sent |-> TRUE, doc |-> FALSE, StatusCode |-> 200,
             local |-> <<>>, county |-> <<>>, state |-> <<>>]
      [] OTHER ->
            [sent |-> FALSE, doc |-> FALSE, StatusCode |-> 0,
             local |-> <<>>, county |-> <<>>, state |-> <<>>]

\* the placeholders of scrapeTaxRates: 0.02, 0.005 and 0.0625
DefaultLocal == (2 * Scale) \div 100

DefaultCounty == (5 * Scale) \div 1000

DefaultState == (625 * Scale) \div 10000

\* RateOr that gives 0 for a string that does not parse
RateOr_Zero(str, default) ==
    LET r == ParseFloat(TrimSpace(str))
    IN  IF r.ok THEN r.val ELSE 0

\* strconv.ParseFloat(strings.TrimSpace(str), 64), or the placeholder
RateOr(str, default) ==
    LET r == ParseFloat(TrimSpace(str))
    IN  IF r.ok THEN r.val ELSE default

\* func scrapeTaxRates(address string) (local, county, state float64, err error)
scrapeTaxRatesHTML(address) ==
    LET resp == HTTPPost(address)
    IN  IF ~resp.sent
        THEN [err |-> Error("transport", <<>>), local |-> 0, county |-> 0, state |-> 0]
        ELSE IF ~resp.doc
        THEN [err |-> Error("document", <<>>), local |-> 0, county |-> 0, state |-> 0]
        ELSE [err |-> NoErr,
              local  |-> RateOr(resp.local, DefaultLocal),
              county |-> RateOr(resp.county, DefaultCounty),
              state  |-> RateOr(resp.state, DefaultState)]

ErrIncomplete == <<"E", "r", "r", "o", "r", ":", " ", "I", "n", "c">>

ErrCharge == <<"E", "r", "r", "o", "r", ":", " ", "c", "h", "g">>

ErrLookup == <<"E", "r", "r", "o", "r", ":", " ", "n", "e", "t">>

ErrorRow(row, msg) == row \o <<msg, <<>>, <<>>>>

\* what a goroutine sends before its request, or "lookup" when it goes on
\* to call scrapeTaxRates
BeforeLookup(row) ==
    IF Len(row) < 4 THEN ErrorRow(row, ErrIncomplete)
    ELSE IF ~ParseFloat(row[4]).ok THEN ErrorRow(row, ErrCharge)
    ELSE "lookup"

\* AfterLookup without the check of scrapeTaxRates' error
AfterLookup_IgnoreErr(row) ==
    LET charge == ParseFloat(row[4]).val
        r      == scrapeTaxRatesHTML(row[3])
    IN  row \o << Sprintf2f(charge * r.local, Scale * Scale),
                  Sprintf2f(charge * r.county, Scale * Scale),
                  Sprintf2f(charge * r.state, Scale * Scale) >>

\* what a goroutine sends after scrapeTaxRates has returned
AfterLookup(row) ==
    LET charge == ParseFloat(row[4]).val
        r      == scrapeTaxRatesHTML(row[3])
    IN  IF r.err # NoErr THEN ErrorRow(row, ErrLookup)
        ELSE row \o << Sprintf2f(charge * r.local, Scale * Scale),
                       Sprintf2f(charge * r.county, Scale * Scale),
                       Sprintf2f(charge * r.state, Scale * Scale) >>

Worker(st, row) == [st |-> st, row |-> row]

One(w) == SetToBag({w})

Running == BagToSet(workers)

\* results <- v, on a channel of capacity len(records)-1
Send(v) ==
    /\ Len(results) < Len(rows)
    /\ ~closed
    /\ results' = Append(results, v)

\* if len(records) < 2 { return "", ... }; the header is written
POpen ==
    /\ ppc = "start"
    /\ ppc' = IF Len(rows) < 1 THEN "failed" ELSE "loop"
    /\ UNCHANGED <<spawned, semaphore, wg, workers, results, closed, out>>
    /\ UNCHANGED <<envVars, seqVars, repVars>>

\* for _, row := range records[1:] { wg.Add(1)
PAdd ==
    /\ ppc = "loop"
    /\ spawned < Len(rows)
    /\ wg' = wg + 1
    /\ ppc' = "acquire"
    /\ UNCHANGED <<spawned, semaphore, workers, results, closed, out>>
    /\ UNCHANGED <<envVars, seqVars, repVars>>

\* PAcquire without the wait for a free semaphore slot
PAcquire_NoCap ==
    /\ ppc = "acquire"
    /\ semaphore' = semaphore + 1
    /\ workers' = workers (+) One(Worker("start", rows[spawned + 1]))
    /\ spawned' = spawned + 1
    /\ ppc' = "loop"
    /\ UNCHANGED <<wg, results, closed, out>>
    /\ UNCHANGED <<envVars, seqVars, repVars>>

\* semaphore <- struct{}{}; go func(row []string) {...}(row)
PAcquire ==
    /\ ppc = "acquire"
    /\ semaphore < maxConcurrent
    /\ semaphore' = semaphore + 1
    /\ workers' = workers (+) One(Worker("start", rows[spawned + 1]))
    /\ spawned' = spawned + 1
    /\ ppc' = "loop"
    /\ UNCHANGED <<wg, results, closed, out>>
    /\ UNCHANGED <<envVars, seqVars, repVars>>

\* the loop is over: go func() { wg.Wait(); close(results) }()
PCollectStart ==
    /\ ppc = "loop"
    /\ spawned = Len(rows)
    /\ ppc' = "collect"
    /\ UNCHANGED <<spawned, semaphore, wg, workers, results, closed, out>>
    /\ UNCHANGED <<envVars, seqVars, repVars>>

\* a goroutine from its start to its first send or to client.Do
WStart ==
    /\ \E w \in Running :
          /\ w.st = "start"
          /\ IF BeforeLookup(w.row) = "lookup"
             THEN /\ workers' = (workers (-) One(w)) (+) One(Worker("lookup", w.row))
                  /\ UNCHANGED results
             ELSE /\ Send(BeforeLookup(w.row))
                  /\ workers' = (workers (-) One(w)) (+) One(Worker("sent", w.row))
    /\ UNCHANGED <<ppc, spawned, semaphore, wg, closed, out>>
    /\ UNCHANGED <<envVars, seqVars, repVars>>

\* scrapeTaxRates returns and the goroutine sends its row
WLookupReturn ==
    /\ \E w \in Running :
          /\ w.st = "lookup"
          /\ Send(AfterLookup(w.row))
          /\ workers' = (workers (-) One(w)) (+) One(Worker("sent", w.row))
    /\ UNCHANGED <<ppc, spawned, semaphore, wg, closed, out>>
    /\ UNCHANGED <<envVars, seqVars, repVars>>

\* WRelease that keeps the semaphore slot
WRelease_KeepSlot ==
    /\ \E w \in Running :
          /\ w.st = "sent"
          /\ workers' = (workers (-) One(w)) (+) One(Worker("released", w.row))
    /\ UNCHANGED <<ppc, spawned, semaphore, wg, results, closed, out>>
    /\ UNCHANGED <<envVars, seqVars, repVars>>

\* defer func() { <-semaphore }()
WRelease ==
    /\ \E w \in Running :
          /\ w.st = "sent"
          /\ workers' = (workers (-) One(w)) (+) One(Worker("released", w.row))
    /\ semaphore' = semaphore - 1
    /\ UNCHANGED <<ppc, spawned, wg, results, closed, out>>
    /\ UNCHANGED <<envVars, seqVars, repVars>>

\* defer wg.Done()
WDone ==
    /\ \E w \in Running :
          /\ w.st = "released"
          /\ workers' = workers (-) One(w)
    /\ wg' = wg - 1
    /\ UNCHANGED <<ppc, spawned, semaphore, results, closed, out>>
    /\ UNCHANGED <<envVars, seqVars, repVars>>

\* CloseResults without wg.Wait()
CloseResults_NoWait ==
    /\ ppc = "collect"
    /\ ~closed
    /\ closed' = TRUE
    /\ UNCHANGED <<ppc, spawned, semaphore, wg, workers, results, out>>
    /\ UNCHANGED <<envVars, seqVars, repVars>>

\* wg.Wait(); close(results)
CloseResults ==
    /\ ppc = "collect"
    /\ ~closed
    /\ wg = 0
    /\ closed' = TRUE
    /\ UNCHANGED <<ppc, spawned, semaphore, wg, workers, results, out>>
    /\ UNCHANGED <<envVars, seqVars, repVars>>

\* for result := range results { writer.Write(result) }
PCollect ==
    /\ ppc = "collect"
    /\ results # <<>>
    /\ out' = Append(out, Head(results))
    /\ results' = Tail(results)
    /\ UNCHANGED <<ppc, spawned, semaphore, wg, workers, closed>>
    /\ UNCHANGED <<envVars, seqVars, repVars>>

\* the range ends when the channel is closed and empty
PCollectEnd ==
    /\ ppc = "collect"
    /\ results = <<>>
    /\ closed
    /\ ppc' = "done"
    /\ UNCHANGED <<spawned, semaphore, wg, workers, results, closed, out>>
    /\ UNCHANGED <<envVars, seqVars, repVars>>

-----------------------------------------------------------------------------
(* The code that calls processCSV and writes the report: taxRatesHandler   *)
(* of the web generations, main of the command-line generation.            *)

NoReport == [header |-> <<>>, rows |-> <<>>]

NoPrev == [report |-> NoReport, totals |-> <<>>]

\* the keys of jurisSet after the loops over the records and their Taxes
jurisSet(recs) == UNION { DOMAIN recs[i].Taxes : i \in 1..Len(recs) }

\* the orders in which a range over a map with the keys S may give them
Orders(S) ==
    { f \in [1..Cardinality(S) -> S] :
        \A i, j \in 1..Cardinality(S) : f[i] = f[j] => i = j }

\* getAllJurisNames that looks at the first record only
getAllJurisNames_FirstRecord(recs) ==
    Orders(IF recs = <<>> THEN {} ELSE DOMAIN recs[1].Taxes)

\* func getAllJurisNames(records []TaxRecord) []string: the slices it may
\* return, one for each order of the range over jurisSet
getAllJurisNames(recs) == Orders(jurisSet(recs))

TaxColumns == <<"city tax", "county tax", "state tax">>

\* tax := rec.Taxes[juris]: the zero value for a key the map does not hold
TaxOf(rec, juris) == IF juris \in DOMAIN rec.Taxes THEN rec.Taxes[juris] ELSE 0

\* the fields of a record before its tax columns
RecordFields(v, rec) ==
    IF HasDate(v)
    THEN <<rec.Client, rec.Date, Sprintf2f(rec.Charge, Scale), rec.Street,
           rec.City, rec.State, rec.Zip>>
    ELSE <<rec.Client, Sprintf2f(rec.Charge, Scale), rec.Street,
           rec.City, rec.State, rec.Zip>>

\* the tax columns of a record, under the names of the header
TaxFields(v, rec, jurisNames) ==
    IF ByName(v)
    THEN [k \in 1..Len(jurisNames) |->
             Sprintf2f(TaxOf(rec, jurisNames[k]), Scale * Scale)]
    ELSE << Sprintf2f(rec.Taxes.CityTax, Scale * Scale),
            Sprintf2f(rec.Taxes.CountyTax, Scale * Scale),
            Sprintf2f(rec.Taxes.StateTax, Scale * Scale) >>

\* writer.Write(headers) and one writer.Write(row) per record
ReportOf(v, recs, jurisNames) ==
    [header |-> expected(v) \o (IF ByName(v) THEN jurisNames ELSE TaxColumns),
     rows   |-> [i \in 1..Len(recs) |->
                    RecordFields(v, recs[i]) \o TaxFields(v, recs[i], jurisNames)]]

\* x to the nearest hundredth, for x in units of 1/(Scale*Scale)
Round2(x) ==
    LET unit == (Scale * Scale) \div 100
        a    == IF x < 0 THEN -x ELSE x
        r    == ((a + unit \div 2) \div unit) * unit
    IN  IF x < 0 THEN -r ELSE r

\* jurisTotals that adds the amounts as the detail table shows them
RECURSIVE jurisTotals_Rounded(_)
jurisTotals_Rounded(recs) ==
    IF recs = <<>> THEN NoRates
    ELSE LET before == jurisTotals_Rounded(SubSeq(recs, 1, Len(recs) - 1))
             rec    == recs[Len(recs)]
         IN  [j \in (DOMAIN before) \cup (DOMAIN rec.Taxes) |->
                 (IF j \in DOMAIN before THEN before[j] ELSE 0)
                 + (IF j \in DOMAIN rec.Taxes THEN Round2(rec.Taxes[j]) ELSE 0)]

\* jurisTotals where a record's tax replaces the total so far
RECURSIVE jurisTotals_LastWins(_)
jurisTotals_LastWins(recs) ==
    IF recs = <<>> THEN NoRates
    ELSE LET before == jurisTotals_LastWins(SubSeq(recs, 1, Len(recs) - 1))
             rec    == recs[Len(recs)]
         IN  [j \in (DOMAIN before) \cup (DOMAIN rec.Taxes) |->
                 IF j \in DOMAIN rec.Taxes THEN rec.Taxes[j] ELSE before[j]]

\* for _, rec := range records { for juris, tax := range rec.Taxes {
\*     jurisTotals[juris] += tax } }
RECURSIVE jurisTotals(_)
jurisTotals(recs) ==
    IF recs = <<>> THEN NoRates
    ELSE LET before == jurisTotals(SubSeq(recs, 1, Len(recs) - 1))
             rec    == recs[Len(recs)]
         IN  [j \in (DOMAIN before) \cup (DOMAIN rec.Taxes) |->
                 (IF j \in DOMAIN before THEN before[j] ELSE 0) + TaxOf(rec, j)]

\* if err != nil { http.Error(w, "Error processing CSV: ...", 500); return }
HandlerError ==
    /\ hpc = "start"
    /\ pc = "failed"
    /\ hpc' = "error"
    /\ UNCHANGED <<report, totals, prev>>
    /\ UNCHANGED <<envVars, seqVars, parVars>>

\* the header and the rows of the report, from the records processCSV returned
WriteReport ==
    /\ hpc = "start"
    /\ pc = "done"
    /\ \E jurisNames \in
           (IF ByName(variant) THEN getAllJurisNames(ret.records) ELSE {<<>>}) :
           report' = ReportOf(variant, ret.records, jurisNames)
    /\ hpc' = IF variant = "dual" THEN "totals" ELSE "done"
    /\ UNCHANGED <<totals, prev>>
    /\ UNCHANGED <<envVars, seqVars, parVars>>

\* for juris, total := range jurisTotals { dueByJurisWriter.Write(...) }
WriteTotals ==
    /\ hpc = "totals"
    /\ LET sums == jurisTotals(ret.records)
       IN  \E order \in Orders(DOMAIN sums) :
               totals' = [k \in 1..Len(order) |->
                             [Jurisdiction |-> order[k],
                              total |-> Sprintf2f(sums[order[k]], Scale * Scale)]]
    /\ hpc' = "done"
    /\ UNCHANGED <<report, prev>>
    /\ UNCHANGED <<envVars, seqVars, parVars>>

\* the same file is uploaded once more, to the same rate service
Rerun ==
    /\ hpc = "done"
    /\ prev = NoPrev
    /\ prev' = [report |-> report, totals |-> totals]
    /\ hpc' = "start" /\ report' = NoReport /\ totals' = <<>>
    /\ pc' = "start" /\ idx' = 0 /\ cur' = NoCur /\ records' = <<>>
    /\ ret' = [records |-> Nil, err |-> NoErr] /\ requests' = <<>>
    /\ UNCHANGED <<envVars, parVars>>

-----------------------------------------------------------------------------
(* Initial states and next-state relations.                                *)

SeqVariants == {"dateless", "fixed", "dynamic"}

SeqIdle ==
    /\ pc = "idle" /\ idx = 0 /\ cur = NoCur /\ records = <<>>
    /\ ret = [records |-> Nil, err |-> NoErr] /\ requests = <<>>

RepIdle == hpc = "idle" /\ report = NoReport /\ totals = <<>> /\ prev = NoPrev

ParIdle ==
    /\ ppc = "idle" /\ spawned = 0 /\ semaphore = 0 /\ wg = 0
    /\ workers = EmptyBag /\ results = <<>> /\ closed = FALSE /\ out = <<>>

SeqStart ==
    /\ pc = "start" /\ idx = 0 /\ cur = NoCur /\ records = <<>>
    /\ ret = [records |-> Nil, err |-> NoErr] /\ requests = <<>>

\* an upload whose header is the one the generation expects
GoodUpload(n) ==
    /\ header = expected(variant)
    /\ \E cs \in SeqsUpTo(RowCases, n) :
           rows = [i \in 1..Len(cs) |-> Row(cs[i], HasDate(variant))]

\* an upload with the header of the other schema, or an empty file
OtherUpload ==
    /\ header \in {expected(IF HasDate(variant) THEN "dateless" ELSE "fixed"), <<>>}
    /\ \E cs \in SeqsUpTo(RowCases, 1) :
           rows = [i \in 1..(IF header = <<>> THEN 0 ELSE Len(cs)) |->
                      Row(cs[i], Len(header) = Len(ExpectedDate))]

Init ==
    /\ variant \in SeqVariants
    /\ now \in NowSamples
    /\ GoodUpload(MaxRows) \/ OtherUpload
    /\ SeqStart
    /\ ParIdle
    /\ RepIdle

Next ==
    \/ ReadHeader
    \/ ReadEOF
    \/ ReadRow
    \/ LookupReturn

Spec == Init /\ [][Next]_vars

-----------------------------------------------------------------------------
(* Uploads that spread over the header and over the date field.            *)

\* a with its i-th element replaced by x, removed, or with x put before it
Renamed(a, i, x) == [a EXCEPT ![i] = x]

Dropped(a, i) == SubSeq(a, 1, i - 1) \o SubSeq(a, i + 1, Len(a))

Inserted(a, i, x) == SubSeq(a, 1, i - 1) \o <<x>> \o SubSeq(a, i, Len(a))

Swapped(a, i, j) == [a EXCEPT ![i] = a[j], ![j] = a[i]]

OtherNames == {"Client", "state", "zip", "date", "notes", ""}

\* every header one edit away from a, and a itself
HeadersNear(a) ==
    {a}
    \cup { Renamed(a, i, x) : i \in 1..Len(a), x \in OtherNames }
    \cup { Dropped(a, i) : i \in 1..Len(a) }
    \cup { Inserted(a, i, x) : i \in 1..(Len(a) + 1), x \in OtherNames }
    \cup { Swapped(a, i, j) : i \in 1..Len(a), j \in 1..Len(a) }

MonthSamples ==
    { <<"0">>, <<"1">>, <<"2">>, <<"3">>, <<"4">>, <<"5">>, <<"6">>, <<"7">>,
      <<"8">>, <<"9">>, <<"1","0">>, <<"1","1">>, <<"1","2">>, <<"1","3">>,
      <<"0","2">>, <<"-","1">>, <<"+","6">>, <<" ","1">>, <<"x">>, <<>> }

DaySamples ==
    { <<"0">>, <<"1">>, <<"0","1">>, <<"2","2">>, <<"3","0">>, <<"3","1">>,
      <<"3","2">>, <<"1"," ">>, <<"x">>, <<>> }

YearSamples ==
    { <<"1","9","9","9">>, <<"2","0","0","0">>, <<"2","0","2","5">>,
      <<"2","5">>, <<"2","0","x">>, <<>> }

FewParts == { <<"0","2">>, <<"2","0","2","5">>, <<>> }

\* dates of three parts, and dates of one to MaxParts parts
DateInputs ==
    { Date(m, d, y) : m \in MonthSamples, d \in DaySamples, y \in YearSamples }
    \cup { Join(ps, "/") : ps \in UNION { [1..k -> FewParts] : k \in 1..MaxParts } }

\* a record of as many fields as the header has columns
FillerRow(n) == [i \in 1..n |-> <<"x">>]

\* uploads whose header is near the expected one, with one data row
HeaderUpload ==
    /\ header \in HeadersNear(expected(variant)) \cup {<<>>}
    /\ rows = IF header = <<>> THEN <<>> ELSE <<FillerRow(Len(header))>>

\* uploads with the expected header and one row that differs in its date
DateUpload ==
    /\ HasDate(variant)
    /\ header = expected(variant)
    /\ \E date \in DateInputs, client \in {<<"J">>, <<" ", "K", " ">>} :
           rows = <<Row(Case(client, date, <<"4","0">>, StreetOk), TRUE)>>

\* uploads whose last record has one field less than the header
RaggedUpload ==
    /\ header = expected(variant)
    /\ \E cs \in SeqsUpTo(RowCases, 1) :
           /\ cs # <<>>
           /\ LET row == Row(cs[1], HasDate(variant))
              IN  rows = <<SubSeq(row, 1, Len(row) - 1)>>

InitInputs ==
    /\ variant \in SeqVariants
    /\ now \in NowSamples
    /\ HeaderUpload \/ DateUpload \/ RaggedUpload \/ GoodUpload(1)
    /\ SeqStart
    /\ ParIdle
    /\ RepIdle

SpecInputs == InitInputs /\ [][Next]_vars

-----------------------------------------------------------------------------
(* Uploads whose report is written, and uploads that spread over the       *)
(* answers of the rate service.                                            *)

RepVariants == SeqVariants \cup {"dual"}

\* rows with the same and with different jurisdictions, a failing row, and
\* a row whose amounts have fractions of a cent
ReportCases ==
    { c \in RowCases : c.client \in {<<"J">>, <<"P">>, <<"O">>} }
    \cup { Case(<<"T">>, Date(<<"0","3">>, <<"0","9">>, <<"2","0","2","5">>),
                <<"1", ".", "0", "3">>, StreetOk) }

\* one row for every answer of the rate service
LookupCases ==
    { Case(<<"S">>, Date(<<"0","9">>, <<"1","2">>, <<"2","0","2","5">>),
           <<"8", ".", "5">>, street) : street \in Streets }

ReportUpload ==
    /\ header = expected(variant)
    /\ \E cs \in SeqsUpTo(ReportCases, MaxRepRows) :
           rows = [i \in 1..Len(cs) |-> Row(cs[i], HasDate(variant))]

LookupUpload ==
    /\ header = expected(variant)
    /\ \E c \in LookupCases : rows = <<Row(c, HasDate(variant))>>

InitReport ==
    /\ variant \in RepVariants
    /\ now = [month |-> 2, year |-> 2025]
    /\ ReportUpload \/ LookupUpload
    /\ SeqStart
    /\ ParIdle
    /\ hpc = "start" /\ report = NoReport /\ totals = <<>> /\ prev = NoPrev

NextReport ==
    \/ ReadHeader
    \/ ReadEOF
    \/ ReadRow
    \/ LookupReturn
    \/ HandlerError
    \/ WriteReport
    \/ WriteTotals
    \/ Rerun

SpecReport == InitReport /\ [][NextReport]_vars

-----------------------------------------------------------------------------
(* The parallel generation's uploads.                                      *)

ParHeader == <<"Client", "Date", "Address", "Charge">>

ShortHeader == <<"Client", "Date", "Address">>

PCase(client, address, charge) == [client |-> client, address |-> address, charge |-> charge]

DateField == <<"2", "/", "2", "2">>

\* the CSV record of a case under a header of four or of three columns
PRow(c, full) ==
    IF full THEN <<c.client, DateField, c.address, c.charge>>
    ELSE <<c.client, DateField, c.address>>

ParCases ==
    { PCase(<<"J">>, AddrOk, <<"1","0","0",".","0","0">>),
      PCase(<<"K">>, Addr500, <<"4","0">>),
      PCase(<<"L">>, AddrOk, <<"a","b">>),
      PCase(<<"M">>, AddrNetErr, <<"4","0">>),
      PCase(<<"N">>, AddrPartial, <<"8",".","5">>),
      PCase(<<"O">>, AddrCut, <<"4","0">>) }

BatchCases ==
    { PCase(<<"J">>, AddrOk, <<"1","0","0",".","0","0">>),
      PCase(<<"L">>, AddrOk, <<"a","b">>) }

\* uploads of at most MaxParRows freely mixed rows; under the short header
\* every row has three fields and fails before its lookup, whatever it holds
MixedUpload ==
    \/ /\ header = ParHeader
       /\ \E cs \in SeqsUpTo(ParCases, MaxParRows) :
              rows = [i \in 1..Len(cs) |-> PRow(cs[i], TRUE)]
    \/ /\ header = ShortHeader
       /\ \E cs \in SeqsUpTo(BatchCases, MaxParRows) :
              rows = [i \in 1..Len(cs) |-> PRow(cs[i], FALSE)]

\* uploads of maxConcurrent to MaxBatch copies of one row
BatchUpload ==
    /\ header = ParHeader
    /\ \E c \in BatchCases, n \in maxConcurrent..MaxBatch :
           rows = [i \in 1..n |-> PRow(c, TRUE)]

InitPar ==
    /\ variant = "parallel"
    /\ now = [month |-> 2, year |-> 2025]
    /\ MixedUpload \/ BatchUpload
    /\ ppc = "start" /\ spawned = 0 /\ semaphore = 0 /\ wg = 0
    /\ workers = EmptyBag /\ results = <<>> /\ closed = FALSE /\ out = <<>>
    /\ SeqIdle
    /\ RepIdle

NextPar ==
    \/ POpen
    \/ PAdd
    \/ PAcquire
    \/ PCollectStart
    \/ WStart
    \/ WLookupReturn
    \/ WRelease
    \/ WDone
    \/ CloseResults
    \/ PCollect
    \/ PCollectEnd

SpecPar == InitPar /\ [][NextPar]_vars

\* the steps of processCSV's own goroutine, of the closer, and a worker's
\* deferred calls
Scheduled ==
    \/ POpen
    \/ PAdd
    \/ PAcquire
    \/ PCollectStart
    \/ WRelease
    \/ WDone
    \/ CloseResults
    \/ PCollect
    \/ PCollectEnd

\* ENABLED <<WStart \/ WLookupReturn>>_vars: a goroutine is at its start or
\* in its lookup, and the channel takes the row it has to send
CanSend ==
    \E w \in Running :
        \/ w.st \in {"start", "lookup"} /\ Len(results) < Len(rows) /\ ~closed
        \/ w.st = "start" /\ BeforeLookup(w.row) = "lookup"

\* WF_vars(WStart \/ WLookupReturn), with ENABLED written as CanSend: a
\* goroutine that can go on is run, and its lookup returns
WorkersRun == []<>(~CanSend) \/ []<><<WStart \/ WLookupReturn>>_vars

\* the Go scheduler runs a goroutine that can run, and client.Do returns
SpecParFair == SpecPar /\ WF_vars(Scheduled) /\ WorkersRun

-----------------------------------------------------------------------------
(* Claims about the parallel generation (checked under SpecPar).           *)

\* number of goroutines in state st
CountIn(st) ==
    BagCardinality([w \in {x \in Running : x.st = st} |-> workers[w]])

\* lookups started and not yet finished
InFlight == CountIn("lookup")

\* C1: in every reachable state of the bounded-parallel pipeline, whatever
\* the number of data rows, at most 10 rate lookups have been started and
\* have not yet finished.
C1_InFlightAtMostTen == InFlight <= 10

\* C1 witness: ten lookups are in flight and the spawning loop is blocked on
\* the semaphore with a row still to spawn.
C1_Witness ==
    /\ InFlight = 10
    /\ ppc = "acquire"
    /\ spawned < Len(rows)
    /\ semaphore = maxConcurrent

\* the row the report should hold for input row `row`
ReportRow(row) ==
    IF BeforeLookup(row) # "lookup" THEN BeforeLookup(row) ELSE AfterLookup(row)

\* C2: the data rows of the final report are in the order of the input rows,
\* whatever the order in which the lookups complete.
C2_ReportInInputOrder ==
    ppc = "done" => out = [i \in 1..Len(rows) |-> ReportRow(rows[i])]

IsPrefix(p, s) == Len(p) <= Len(s) /\ SubSeq(s, 1, Len(p)) = p

ErrorPrefix == <<"E", "r", "r", "o", "r", ":", " ">>

\* a row's own processing fails: too few fields, a charge that does not
\* parse, or a lookup that returns an error
RowFails(row) ==
    \/ Len(row) < 4
    \/ ~ParseFloat(row[4]).ok
    \/ scrapeTaxRatesHTML(row[3]).err # NoErr

\* o is row followed by an "Error: ..." value and two empty tax columns
IsErrorRow(o, row) ==
    /\ Len(o) = Len(row) + 3
    /\ IsPrefix(row, o)
    /\ IsPrefix(ErrorPrefix, o[Len(row) + 1])
    /\ o[Len(row) + 2] = <<>>
    /\ o[Len(row) + 3] = <<>>

\* o is row followed by its three tax amounts, charge * rate to two decimals
IsTaxRow(o, row) ==
    LET charge == ParseFloat(row[4]).val
        r      == scrapeTaxRatesHTML(row[3])
    IN  /\ Len(o) = Len(row) + 3
        /\ IsPrefix(row, o)
        /\ o[Len(row) + 1] = Sprintf2f(charge * r.local, Scale * Scale)
        /\ o[Len(row) + 2] = Sprintf2f(charge * r.county, Scale * Scale)
        /\ o[Len(row) + 3] = Sprintf2f(charge * r.state, Scale * Scale)

\* o is the report row that row must produce
Emitted(o, row) ==
    IF RowFails(row) THEN IsErrorRow(o, row) ELSE IsTaxRow(o, row)

\* C3: a row whose own processing fails never aborts the batch: once the
\* pipeline is done, every input row has its own report row (as many report
\* rows as input rows of that content), an "Error: ..." row when the row's
\* processing failed and a row with its three tax amounts when it succeeded;
\* and the only failure of the run is an upload without data rows.
C3_RowFailuresIsolated ==
    /\ ppc = "failed" => rows = <<>>
    /\ ppc = "done" =>
          /\ Len(out) = Len(rows)
          /\ \A i \in 1..Len(rows) :
                Cardinality({k \in 1..Len(out) : Emitted(out[k], rows[i])})
                  = Cardinality({k \in 1..Len(rows) : rows[k] = rows[i]})

\* C3 witness: a finished run over an upload with a failing row and a
\* succeeding row.
C3_Witness ==
    /\ ppc = "done"
    /\ \E i, j \in 1..Len(rows) :
          /\ RowFails(rows[i]) /\ Len(rows[i]) = 4 /\ ParseFloat(rows[i][4]).ok
          /\ ~RowFails(rows[j])
          /\ \E k \in 1..Len(out) : IsErrorRow(out[k], rows[i])
          /\ \E k \in 1..Len(out) : IsTaxRow(out[k], rows[j])

\* C4: when the rate service answers HTTP 500 for a row's lookup, the row is
\* flagged with an error column and carries no tax amounts, while the rows
\* whose lookups succeed carry their tax columns.
C4_Status500RowFlagged ==
    ppc = "done" =>
        \A i \in 1..Len(rows) :
            (/\ BeforeLookup(rows[i]) = "lookup"
             /\ HTTPPost(rows[i][3]).sent
             /\ HTTPPost(rows[i][3]).StatusCode = 500)
            => /\ \E k \in 1..Len(out) : IsErrorRow(out[k], rows[i])
               /\ \A k \in 1..Len(out) : ~IsTaxRow(out[k], rows[i])

-----------------------------------------------------------------------------
(* Claims about the sequential generations.                                *)

HeaderOk == header = expected(variant)

\* the fields of input row i after trimming
ClientOf(i) == TrimSpace(rows[i][1])

DateOf(i) == TrimSpace(rows[i][2])

ChargeOf(i) == TrimSpace(rows[i][IF HasDate(variant) THEN 3 ELSE 2])

StreetOf(i) == TrimSpace(rows[i][IF HasDate(variant) THEN 4 ELSE 3])

\* input row i fails: date error, charge error or lookup error
RowBad(i) ==
    \/ HasDate(variant) /\ DateError(DateOf(i)) # "nil"
    \/ ~ParseFloat(ChargeOf(i)).ok
    \/ LookupErr(variant, StreetOf(i)) # NoErr

\* the index of the first failing row, 0 when no row fails
FirstBad ==
    IF \E i \in 1..Len(rows) : RowBad(i)
    THEN CHOOSE i \in 1..Len(rows) : RowBad(i) /\ \A j \in 1..(i - 1) : ~RowBad(j)
    ELSE 0

\* C5: the sequential processCSV handles the rows one at a time in input
\* order (no row is read before the lookup of the row before it has returned,
\* request i and record i belong to input row i); the first failing row
\* aborts the run: processCSV returns an error and no records, nothing runs
\* after it, and no row after the failing row has been read or looked up; a
\* run that ends without error returns exactly one record per data row, in
\* input order.
C5_FirstFailureAborts ==
    (HeaderOk /\ \A i \in 1..Len(rows) : Len(rows[i]) = Len(header)) =>
    /\ Len(requests) <= idx /\ Len(records) <= Len(requests)
    /\ idx <= Len(records) + 1
    /\ FirstBad > 0 => idx <= FirstBad
    /\ \A i \in 1..Len(requests) : requests[i].street = StreetOf(i)
    /\ \A i \in 1..Len(records) : records[i].Client = ClientOf(i)
    /\ pc = "failed" =>
          /\ FirstBad > 0 /\ idx = FirstBad
          /\ Len(records) = FirstBad - 1
          /\ ret.records = Nil /\ ret.err # NoErr
          /\ ~ENABLED Next
    /\ pc = "done" =>
          /\ FirstBad = 0
          /\ ret.err = NoErr
          /\ Len(ret.records) = Len(rows)
          /\ \A i \in 1..Len(rows) : ret.records[i].Client = ClientOf(i)
    /\ pc \notin {"failed", "done"} => ret = [records |-> Nil, err |-> NoErr]

\* C5 witness: the second row fails after the first row gave a record, and
\* the run has returned the error without that record.
C5_Witness ==
    /\ HeaderOk
    /\ pc = "failed"
    /\ Len(rows) = 2 /\ FirstBad = 2
    /\ Len(records) = 1
    /\ ret.records = Nil /\ ret.err # NoErr

\* a has the same length as b and the same name at every position
SameColumns(a, b) ==
    /\ Len(a) = Len(b)
    /\ \A i \in 1..Len(a) : i <= Len(b) => a[i] = b[i]

\* C6: processCSV accepts the header row if and only if it has the length of
\* the expected schema and the expected name at every position; any other
\* header fails with 'invalid CSV header', and then no data row is read and
\* no rate lookup is issued.
C6_HeaderExact ==
    /\ (pc # "start" /\ header # <<>>) =>
          (ret.err.kind = "invalid CSV header"
             <=> ~SameColumns(header, expected(variant)))
    /\ ret.err.kind = "invalid CSV header" =>
          /\ pc = "failed"
          /\ idx = 0 /\ requests = <<>> /\ records = <<>>
          /\ ~ENABLED Next

\* C6 witness: a header that only reorders the expected columns has been
\* refused, with a data row waiting.
C6_Witness ==
    /\ ret.err.kind = "invalid CSV header"
    /\ Len(header) = Len(expected(variant))
    /\ {header[i] : i \in 1..Len(header)}
         = {expected(variant)[i] : i \in 1..Len(header)}
    /\ rows # <<>>

\* s is an integer between lo and hi
IntIn(s, lo, hi) == Atoi(s).ok /\ lo <= Atoi(s).val /\ Atoi(s).val <= hi

\* s is an integer that is at least lo
IntFrom(s, lo) == Atoi(s).ok /\ lo <= Atoi(s).val

\* the error the date must give: part count, month, day, year, in this order
DateVerdict(date) ==
    LET parts == Split(date, "/")
    IN  IF Len(parts) # 3 THEN "invalid date format"
        ELSE IF ~IntIn(parts[1], 1, 12) THEN "invalid month in date"
        ELSE IF ~IntIn(parts[2], 1, 31) THEN "invalid day in date"
        ELSE IF ~IntFrom(parts[3], 2000) THEN "invalid year in date"
        ELSE "nil"

DateErrors ==
    {"invalid date format", "invalid month in date", "invalid day in date",
     "invalid year in date"}

\* the first data row has been read by a generation with a date column
FirstRowRead ==
    /\ HasDate(variant) /\ HeaderOk
    /\ idx >= 1 /\ Len(rows[1]) = Len(header)

\* C7: in the date schema a row's date is accepted if and only if it splits
\* on "/" into exactly 3 integers with month in 1..12, day in 1..31 and
\* year >= 2000, each range on its own; a refused date fails the run with the
\* error of the first failing check (part count, month, day, year), naming
\* the client; an accepted date lets the row go on to its charge and lookup.
C7_DateAcceptance ==
    /\ FirstRowRead =>
          IF DateVerdict(DateOf(1)) = "nil"
          THEN /\ ret.err.kind \notin DateErrors
               /\ ParseFloat(ChargeOf(1)).ok => requests # <<>>
          ELSE /\ pc = "failed"
               /\ ret.err = Error(DateVerdict(DateOf(1)), ClientOf(1))
               /\ requests = <<>>
    /\ ret.err.kind \in DateErrors => FirstRowRead

Feb30 == Date(<<"0","2">>, <<"3","0">>, <<"2","0","2","5">>)

\* C7 witness: the row dated 02/30/2025 has been accepted and its lookup sent.
C7_Witness ==
    /\ FirstRowRead
    /\ DateOf(1) = Feb30
    /\ Len(requests) = 1
    /\ ret.err = NoErr

\* the quarter of a month, by the table of the specification
QuarterOfMonth(m) ==
    CASE m \in 1..3 -> 1
      [] m \in 4..6 -> 2
      [] m \in 7..9 -> 3
      [] m \in 10..12 -> 4
      [] OTHER -> 0

\* C8: for every accepted date, the quarter of the row's request is 1 for
\* months 1-3, 2 for 4-6, 3 for 7-9 and 4 for 10-12 (so always in 1..4), and
\* the year of the request is the year component of the row's date.
C8_QuarterOfRequest ==
    (HasDate(variant) /\ HeaderOk) =>
        \A i \in 1..Len(requests) :
            LET parts == Split(DateOf(i), "/")
            IN  /\ requests[i].quarter = QuarterOfMonth(Atoi(parts[1]).val)
                /\ requests[i].quarter \in 1..4
                /\ requests[i].year = Atoi(parts[3]).val

\* C8 witness: a request for a row dated in month 12 carries quarter 4.
C8_Witness ==
    /\ HasDate(variant) /\ HeaderOk
    /\ Len(requests) = 1
    /\ Atoi(Split(DateOf(1), "/")[1]).val = 12
    /\ requests[1].quarter = 4

\* C9: every record's jurisdictions are those of the rates its own lookup
\* returned, and each amount is the record's charge times that jurisdiction's
\* rate; the record's charge is the charge of its input row.
C9_AmountsAreChargeTimesRate ==
    (HeaderOk /\ \A i \in 1..Len(rows) : Len(rows[i]) = Len(header)) =>
    \A i \in 1..Len(records) :
        LET rec == records[i]
        IN  /\ rec.Street = StreetOf(i)
            /\ rec.Charge = ParseFloat(ChargeOf(i)).val
            /\ IF variant = "dynamic"
               THEN LET rates == scrapeTaxRatesDynamic(rec.Street).taxRates
                    IN  /\ DOMAIN rec.Taxes = DOMAIN rates
                        /\ \A j \in DOMAIN rates :
                              rec.Taxes[j] = rec.Charge * rates[j]
               ELSE LET r == scrapeTaxRatesFixed(rec.Street)
                    IN  /\ rec.Taxes.CityTax = rec.Charge * r.cityRate
                        /\ rec.Taxes.CountyTax = rec.Charge * r.countyRate
                        /\ rec.Taxes.StateTax = rec.Charge * r.stateRate

\* C9 witness: two records of the dynamic-column generation with different
\* jurisdictions, the first one the 100.00 charge taxed 6.25 by the state.
C9_Witness ==
    /\ variant = "dynamic"
    /\ Len(records) = 2
    /\ DOMAIN records[1].Taxes # DOMAIN records[2].Taxes
    /\ "TEXAS" \in DOMAIN records[1].Taxes
    /\ Sprintf2f(records[1].Taxes["TEXAS"], Scale * Scale) = <<"6", ".", "2", "5">>

\* the calendar quarter of the clock
CurrentQuarter == (now.month - 1) \div 3 + 1

\* C10: in the date-less schema every rate lookup carries the current
\* calendar quarter and the current calendar year.
C10_CurrentPeriod ==
    variant = "dateless" =>
        \A i \in 1..Len(requests) :
            /\ requests[i].quarter = CurrentQuarter
            /\ requests[i].year = now.year

-----------------------------------------------------------------------------
(* Claims about the lookups (checked under SpecReport).                    *)

\* the answer of the rate service to request i
AnswerOf(i) == HTTPGet(requests[i].street)

\* the lookup of request i has returned
Looked(i) == i <= Len(requests) /\ ~(pc = "lookup" /\ i = Len(requests))

\* the lookup of request i has returned and has ended the run: no record for
\* the row, processCSV has returned its error and no records
LookupAborted(i) ==
    /\ pc = "failed"
    /\ idx = i /\ Len(requests) = i /\ Len(records) = i - 1
    /\ ret.records = Nil
    /\ ret.err = Error("error scraping tax rates", ClientOf(i))

\* the lookup of request i returned no rates at all
NoRatesReturned(i) ==
    IF ByName(variant)
    THEN scrapeTaxRatesDynamic(requests[i].street).taxRates = NoRates
    ELSE LET r == scrapeTaxRatesFixed(requests[i].street)
         IN  r.cityRate = 0 /\ r.countyRate = 0 /\ r.stateRate = 0

\* C11: a lookup whose answer carries a non-success HTTP status fails for
\* that record with the "unexpected status code" error that carries the
\* status and the body, whether the body is JSON with rates or not; no rates
\* are returned, the row gives no record and the run ends with the error.
C11_StatusCheckedFirst ==
    \A i \in 1..Len(requests) :
        (AnswerOf(i).sent /\ AnswerOf(i).StatusCode \notin 200..299) =>
            /\ LookupErr(variant, requests[i].street)
                 = StatusError(AnswerOf(i).StatusCode, Body(AnswerOf(i)))
            /\ NoRatesReturned(i)
            /\ Looked(i) => LookupAborted(i)

\* C11 witness: a lookup answered 404 with a body that is not JSON has ended
\* the run, and the caller has reported the error.
C11_Witness ==
    /\ Len(requests) = 1
    /\ AnswerOf(1).StatusCode = 404 /\ ~AnswerOf(1).json
    /\ LookupAborted(1)
    /\ hpc = "error"

\* the rate string of an entry is a number
Parses(e) == ParseFloat(e.JurisRate).ok

RateOf(e) == ParseFloat(e.JurisRate).val

\* the answer to request i is a 200 with a JSON body
AnswerRead(i) ==
    AnswerOf(i).sent /\ AnswerOf(i).StatusCode = 200 /\ AnswerOf(i).json

\* the tax of record rec that belongs to entry e: by name, or by type
TaxFor(rec, e) ==
    IF ByName(variant) THEN rec.Taxes[e.JurisName]
    ELSE CASE e.JurisType = "CITY" -> rec.Taxes.CityTax
           [] e.JurisType = "COUNTY" -> rec.Taxes.CountyTax
           [] e.JurisType = "STATE" -> rec.Taxes.StateTax

\* entry e is one the generation keeps: any name, or one of the three types
Kept(e) == ByName(variant) \/ e.JurisType \in {"CITY", "COUNTY", "STATE"}

\* C12: an entry whose rate string is not a number is skipped and is not an
\* error of its own: the lookup of a response with such an entry fails only
\* with the "no rates" error of its generation, and when it succeeds every
\* other entry whose rate parses (of the three types, in the three-field
\* generations) is in the record with charge times its parsed rate, while
\* the skipped entry's name is not in the record.
C12_BadRateSkipped ==
    \A i \in 1..Len(requests) :
        LET es == AnswerOf(i).TaxRates
            e0 == LookupErr(variant, requests[i].street)
        IN  (AnswerRead(i) /\ \E k \in 1..Len(es) : ~Parses(es[k])) =>
                /\ e0.kind \in {"nil", "no tax rates found", "no state tax rate found"}
                /\ (Looked(i) /\ e0 = NoErr) =>
                      /\ i <= Len(records)
                      /\ ByName(variant) =>
                            \A k \in 1..Len(es) :
                                Parses(es[k])
                                  <=> es[k].JurisName \in DOMAIN records[i].Taxes
                      /\ \A k \in 1..Len(es) :
                            (Parses(es[k]) /\ Kept(es[k])) =>
                                TaxFor(records[i], es[k])
                                  = records[i].Charge * RateOf(es[k])

\* C12 witness: a record whose response had an unparseable county rate
\* between parseable entries holds the entries before and after it.
C12_Witness ==
    /\ variant = "dynamic"
    /\ Len(records) = 1
    /\ \E k \in 2..(Len(AnswerOf(1).TaxRates) - 1) :
          /\ ~Parses(AnswerOf(1).TaxRates[k])
          /\ Parses(AnswerOf(1).TaxRates[k - 1])
          /\ Parses(AnswerOf(1).TaxRates[k + 1])
          /\ AnswerOf(1).TaxRates[k + 1].JurisName \in DOMAIN records[1].Taxes
          /\ AnswerOf(1).TaxRates[k].JurisName \notin DOMAIN records[1].Taxes

\* some entry of the answer to request i has a rate that parses
SomeRateParses(i) ==
    \E k \in 1..Len(AnswerOf(i).TaxRates) : Parses(AnswerOf(i).TaxRates[k])

\* C13: in the dynamic-column and dual-report generations a lookup whose
\* response is read succeeds if and only if some entry's rate parses: a
\* response without entries, or with unparseable rates only, fails with
\* "no tax rates found" and ends the run; so every record, and every record
\* processCSV returns, has at least one jurisdiction.
C13_NoEmptyRateMap ==
    ByName(variant) =>
        /\ \A i \in 1..Len(records) : DOMAIN records[i].Taxes # {}
        /\ \A i \in 1..Len(ret.records) : DOMAIN ret.records[i].Taxes # {}
        /\ \A i \in 1..Len(requests) :
              AnswerRead(i) =>
                  /\ scrapeTaxRatesDynamic(requests[i].street).err
                       = IF SomeRateParses(i) THEN NoErr
                         ELSE Error("no tax rates found", <<>>)
                  /\ Looked(i) =>
                        IF SomeRateParses(i) THEN i <= Len(records)
                        ELSE LookupAborted(i)

\* C13 witness: a response whose entries all have unparseable rates has ended
\* a run of the dual-report generation.
C13_Witness ==
    /\ variant = "dual"
    /\ Len(requests) = 1
    /\ AnswerRead(1)
    /\ AnswerOf(1).TaxRates # <<>>
    /\ ~SomeRateParses(1)
    /\ LookupAborted(1)
    /\ hpc = "error"

\* the answer to request i has a STATE entry whose rate is a non-zero number
HasStateRate(i) ==
    \E k \in 1..Len(AnswerOf(i).TaxRates) :
        LET e == AnswerOf(i).TaxRates[k]
        IN  e.JurisType = "STATE" /\ Parses(e) /\ RateOf(e) # 0

\* C14: in the three-field generations a lookup whose response is read
\* succeeds if and only if the response has a STATE entry whose rate parses
\* to a non-zero value; a STATE entry that is absent, zero or unparseable
\* fails the lookup with "no state tax rate found" and ends the run, even
\* when the CITY and COUNTY rates were parsed.
C14_StateRateRequired ==
    ~ByName(variant) =>
        \A i \in 1..Len(requests) :
            AnswerRead(i) =>
                /\ scrapeTaxRatesFixed(requests[i].street).err
                     = IF HasStateRate(i) THEN NoErr
                       ELSE Error("no state tax rate found", <<>>)
                /\ Looked(i) =>
                      IF HasStateRate(i)
                      THEN /\ i <= Len(records)
                           /\ records[i].Taxes.StateTax # 0 \/ records[i].Charge = 0
                      ELSE LookupAborted(i)

\* the answer to request i has an entry of type t whose rate parses
HasRateOfType(i, t) ==
    \E k \in 1..Len(AnswerOf(i).TaxRates) :
        AnswerOf(i).TaxRates[k].JurisType = t /\ Parses(AnswerOf(i).TaxRates[k])

\* C14 witness: a response with parsed CITY and COUNTY rates and a STATE
\* rate that is zero has ended a run of the date-schema generation.
C14_Witness ==
    /\ variant = "fixed"
    /\ Len(requests) = 1
    /\ AnswerRead(1)
    /\ HasRateOfType(1, "CITY") /\ HasRateOfType(1, "COUNTY")
    /\ HasRateOfType(1, "STATE") /\ ~HasStateRate(1)
    /\ LookupAborted(1)
    /\ hpc = "error"

-----------------------------------------------------------------------------
(* Claims about the reports (checked under SpecReport).                    *)

\* the columns of the report after the columns of the upload
JurisColumns ==
    SubSeq(report.header, Len(expected(variant)) + 1, Len(report.header))

\* the jurisdictions of the records processCSV returned
JurisOfBatch == UNION { DOMAIN ret.records[i].Taxes : i \in 1..Len(ret.records) }

Zero2f == <<"0", ".", "0", "0">>

\* C15: in the report with one column per jurisdiction, the columns after
\* the seven input columns are exactly the jurisdiction names of all records
\* of the batch, each name once; every data row has one field per header
\* column, in the order of the header: the record's tax for the column's
\* jurisdiction to two decimals, and 0.00 when the record has none.
C15_ColumnsAreUnion ==
    (ByName(variant) /\ report # NoReport) =>
        LET names == JurisColumns
            n     == Len(expected(variant))
        IN  /\ SubSeq(report.header, 1, n) = expected(variant)
            /\ {names[k] : k \in 1..Len(names)} = JurisOfBatch
            /\ \A k, l \in 1..Len(names) : names[k] = names[l] => k = l
            /\ Len(report.rows) = Len(ret.records)
            /\ \A i \in 1..Len(report.rows) :
                  /\ Len(report.rows[i]) = Len(report.header)
                  /\ \A k \in 1..Len(names) :
                        report.rows[i][n + k] =
                            IF names[k] \in DOMAIN ret.records[i].Taxes
                            THEN Sprintf2f(ret.records[i].Taxes[names[k]],
                                           Scale * Scale)
                            ELSE Zero2f

\* C15 witness: a written report of two records where the second record
\* lacks a jurisdiction of the first and shows 0.00 in its column.
C15_Witness ==
    /\ variant = "dynamic"
    /\ hpc = "done"
    /\ Len(ret.records) = 2 /\ Len(report.rows) = 2
    /\ \E k \in 1..Len(JurisColumns) :
          /\ JurisColumns[k] \in DOMAIN ret.records[1].Taxes
          /\ JurisColumns[k] \notin DOMAIN ret.records[2].Taxes
          /\ report.rows[1][Len(expected(variant)) + k] # Zero2f
          /\ report.rows[2][Len(expected(variant)) + k] = Zero2f

\* the sum over recs of the tax for jurisdiction j, 0 for a record without j
RECURSIVE TotalOf(_, _)
TotalOf(recs, j) ==
    IF recs = <<>> THEN 0
    ELSE (IF j \in DOMAIN Head(recs).Taxes THEN Head(recs).Taxes[j] ELSE 0)
         + TotalOf(Tail(recs), j)

\* C16: the totals table of the dual report has exactly one row for every
\* jurisdiction that occurs in some record, and the row's total is the sum
\* over all records of the record's tax for that jurisdiction (0 for a
\* record without it), to two decimals.
C16_TotalsAreSums ==
    (variant = "dual" /\ hpc = "done") =>
        /\ {totals[k].Jurisdiction : k \in 1..Len(totals)} = JurisOfBatch
        /\ \A k, l \in 1..Len(totals) :
              totals[k].Jurisdiction = totals[l].Jurisdiction => k = l
        /\ \A k \in 1..Len(totals) :
              totals[k].total =
                  Sprintf2f(TotalOf(ret.records, totals[k].Jurisdiction),
                            Scale * Scale)

\* C16 witness: a totals table over two records, with a jurisdiction that
\* both records are taxed by and a jurisdiction that only one is taxed by.
C16_Witness ==
    /\ variant = "dual"
    /\ hpc = "done"
    /\ Len(ret.records) = 2
    /\ \E k, l \in 1..Len(totals) :
          LET j  == totals[k].Jurisdiction
              j1 == totals[l].Jurisdiction
          IN  /\ j \in DOMAIN ret.records[1].Taxes
              /\ j \in DOMAIN ret.records[2].Taxes
              /\ ret.records[1].Taxes[j] > 0 /\ ret.records[2].Taxes[j] > 0
              /\ totals[k].total
                   = Sprintf2f(ret.records[1].Taxes[j] + ret.records[2].Taxes[j],
                               Scale * Scale)
              /\ j1 \in DOMAIN ret.records[1].Taxes
              /\ j1 \notin DOMAIN ret.records[2].Taxes

\* C17: a second run over the same upload, with the same answers of the
\* rate service, writes what the first run wrote: the same header, the same
\* rows and the same totals rows, in the same order.
C17_SameOutputOnRerun ==
    (hpc = "done" /\ prev # NoPrev) =>
        /\ report = prev.report
        /\ totals = prev.totals

\* the rate of the last entry of type t whose rate parses, 0 without one
RECURSIVE RateOfType(_, _)
RateOfType(entries, t) ==
    IF entries = <<>> THEN 0
    ELSE LET e == entries[Len(entries)]
         IN  IF e.JurisType = t /\ Parses(e) THEN RateOf(e)
             ELSE RateOfType(SubSeq(entries, 1, Len(entries) - 1), t)

\* the last three fields of report row i
TaxColumnsOf(i) ==
    SubSeq(report.rows[i], Len(report.rows[i]) - 2, Len(report.rows[i]))

\* C18: in the three-column report a record's city, county and state taxes
\* are its charge times the rate of the CITY, COUNTY and STATE entry of its
\* response, and 0.00 for a type the response has no rate for; entries of any
\* other type change no amount and fail no lookup (a response with a usable
\* STATE rate always gives a record); the report has the three tax columns
\* and nothing else after the input columns.
C18_OnlyThreeTypes ==
    ~ByName(variant) =>
        /\ \A i \in 1..Len(requests) :
              (AnswerRead(i) /\ HasStateRate(i) /\ Looked(i)) => i <= Len(records)
        /\ \A i \in 1..Len(records) :
              LET es == AnswerOf(i).TaxRates
                  c  == records[i].Charge
              IN  /\ records[i].Taxes.CityTax = c * RateOfType(es, "CITY")
                  /\ records[i].Taxes.CountyTax = c * RateOfType(es, "COUNTY")
                  /\ records[i].Taxes.StateTax = c * RateOfType(es, "STATE")
        /\ report # NoReport =>
              /\ report.header = expected(variant) \o TaxColumns
              /\ Len(report.rows) = Len(ret.records)
              /\ \A i \in 1..Len(report.rows) :
                    LET es == AnswerOf(i).TaxRates
                        c  == ret.records[i].Charge
                    IN  /\ Len(report.rows[i]) = Len(report.header)
                        /\ TaxColumnsOf(i) =
                             << Sprintf2f(c * RateOfType(es, "CITY"), Scale * Scale),
                                Sprintf2f(c * RateOfType(es, "COUNTY"), Scale * Scale),
                                Sprintf2f(c * RateOfType(es, "STATE"), Scale * Scale) >>

\* C18 witness: a written three-column report for a response with a STATE
\* entry and an entry of another type only: city and county show 0.00.
C18_Witness ==
    /\ variant = "fixed"
    /\ hpc = "done"
    /\ Len(report.rows) = 1
    /\ \E k \in 1..Len(AnswerOf(1).TaxRates) :
          /\ AnswerOf(1).TaxRates[k].JurisType \notin {"CITY", "COUNTY", "STATE"}
          /\ Parses(AnswerOf(1).TaxRates[k])
    /\ ~HasRateOfType(1, "CITY") /\ ~HasRateOfType(1, "COUNTY")
    /\ TaxColumnsOf(1)[1] = Zero2f /\ TaxColumnsOf(1)[2] = Zero2f
    /\ TaxColumnsOf(1)[3] # Zero2f

-----------------------------------------------------------------------------
(* Claims about the requests and the charges (checked under Spec).         *)

\* the upload has the expected header and as many fields in every row
WellFormed == HeaderOk /\ \A i \in 1..Len(rows) : Len(rows[i]) = Len(header)

\* input row i passes the checks that come before its lookup
Attempted(i) ==
    /\ HasDate(variant) => DateError(DateOf(i)) = "nil"
    /\ ParseFloat(ChargeOf(i)).ok

\* C19: the sequential pipeline sends exactly one request for every row it
\* attempts and never a second one: at every moment there are as many
\* requests as rows read that passed their checks, request k is for input
\* row k; a run that succeeds over n rows has sent n requests; after a failed
\* lookup the failing row has its one request, no later row has any, and
\* nothing more is sent.
C19_OneRequestPerRecord ==
    WellFormed =>
        /\ Len(requests) = Cardinality({i \in 1..idx : Attempted(i)})
        /\ \A k \in 1..Len(requests) :
              /\ Attempted(k)
              /\ requests[k].street = StreetOf(k)
        /\ pc = "done" =>
              Len(requests) = Len(rows) /\ Len(ret.records) = Len(requests)
        /\ (pc = "failed" /\ ret.err.kind = "error scraping tax rates") =>
              /\ Len(requests) = idx
              /\ LookupErr(variant, requests[idx].street) # NoErr
              /\ \A k \in 1..(idx - 1) :
                    LookupErr(variant, requests[k].street) = NoErr
              /\ ~ENABLED Next

\* C19 witness: the lookup of the first of two rows has failed after its one
\* request, and the run has ended without a request for the second row.
C19_Witness ==
    /\ WellFormed
    /\ pc = "failed" /\ ret.err.kind = "error scraping tax rates"
    /\ Len(rows) = 2 /\ idx = 1
    /\ Len(requests) = 1
    /\ Attempted(2)

\* C20: no row with a negative charge is looked up or becomes a record:
\* every request is for a row whose charge is at least 0, and every record
\* has a charge of at least 0.
C20_ChargeNonNegative ==
    WellFormed =>
        /\ \A k \in 1..Len(requests) : ParseFloat(ChargeOf(k)).val >= 0
        /\ \A k \in 1..Len(records) : records[k].Charge >= 0

-----------------------------------------------------------------------------
(* Claims about rounding (checked under SpecReport) and about the order of *)
(* parsing and lookups (checked under Spec).                               *)

\* the sum over recs of the tax for jurisdiction j as the detail table
\* shows it, to the hundredth
RECURSIVE ShownTotalOf(_, _)
ShownTotalOf(recs, j) ==
    IF recs = <<>> THEN 0
    ELSE (IF j \in DOMAIN Head(recs).Taxes THEN Round2(Head(recs).Taxes[j]) ELSE 0)
         + ShownTotalOf(Tail(recs), j)

\* x is not half way between two hundredths
OffHalfCent(x) ==
    LET unit == (Scale * Scale) \div 100
        a    == IF x < 0 THEN -x ELSE x
    IN  a % unit # unit \div 2

\* the column of jurisdiction j in the detail table
ColumnOf(j) == CHOOSE k \in 1..Len(JurisColumns) : JurisColumns[k] = j

\* C21: the records of the dual report hold their amounts unrounded, charge
\* times rate; the detail table shows each amount to two decimals and the
\* totals table shows, for each jurisdiction, the two-decimal rounding of the
\* sum of the unrounded amounts, which need not be the sum of the amounts
\* the detail table shows.
C21_RoundedAtOutputOnly ==
    (variant = "dual" /\ hpc = "done") =>
        /\ \A i \in 1..Len(ret.records) :
              LET rec   == ret.records[i]
                  rates == scrapeTaxRatesDynamic(rec.Street).taxRates
              IN  /\ DOMAIN rec.Taxes = DOMAIN rates
                  /\ \A j \in DOMAIN rec.Taxes :
                        /\ rec.Taxes[j] = rec.Charge * rates[j]
                        /\ j \in {JurisColumns[k] : k \in 1..Len(JurisColumns)}
                        /\ report.rows[i][Len(expected(variant)) + ColumnOf(j)]
                             = Sprintf2f(rec.Taxes[j], Scale * Scale)
        /\ \A k \in 1..Len(totals) :
              LET j == totals[k].Jurisdiction
              IN  /\ j \in JurisOfBatch
                  /\ totals[k].total
                       = Sprintf2f(TotalOf(ret.records, j), Scale * Scale)
                  /\ (ShownTotalOf(ret.records, j)
                        # Round2(TotalOf(ret.records, j)))
                     => totals[k].total
                          # Sprintf2f(ShownTotalOf(ret.records, j), Scale * Scale)

\* C21 witness: a dual report of two records whose amounts for a
\* jurisdiction have fractions of a cent, none half way between two
\* hundredths, where the total differs from the sum of the shown amounts.
C21_Witness ==
    /\ variant = "dual"
    /\ hpc = "done"
    /\ Len(ret.records) = 2
    /\ \E k \in 1..Len(totals) :
          LET j == totals[k].Jurisdiction
          IN  /\ j \in DOMAIN ret.records[1].Taxes
              /\ j \in DOMAIN ret.records[2].Taxes
              /\ OffHalfCent(ret.records[1].Taxes[j])
              /\ OffHalfCent(ret.records[2].Taxes[j])
              /\ OffHalfCent(TotalOf(ret.records, j))
              /\ ret.records[1].Taxes[j] # Round2(ret.records[1].Taxes[j])
              /\ totals[k].total
                   # Sprintf2f(ShownTotalOf(ret.records, j), Scale * Scale)

\* C22: every data row is validated before any lookup is issued: when some
\* data row of the upload has a bad date or a bad charge, no request is ever
\* sent to the rate service.
C22_NoRequestWhenMalformed ==
    (WellFormed /\ \E i \in 1..Len(rows) : ~Attempted(i)) => requests = <<>>

-----------------------------------------------------------------------------
(* Claims about the end of the parallel pipeline (C23, checked under       *)
(* SpecParFair), its results channel and the placeholder rates (C24, C25,  *)
(* checked under SpecPar).                                                 *)

\* the pipeline is over: no goroutine is left, every semaphore slot is free,
\* the channel is drained, and the report holds one row for each input row
ParFinished ==
    /\ ppc \in {"done", "failed"}
    /\ ppc = "failed" => rows = <<>>
    /\ spawned = Len(rows)
    /\ workers = EmptyBag
    /\ semaphore = 0
    /\ wg = 0
    /\ results = <<>>
    /\ Len(out) = Len(rows)
    /\ \A i \in 1..Len(rows) :
          Cardinality({k \in 1..Len(out) : out[k] = ReportRow(rows[i])})
            = Cardinality({k \in 1..Len(rows) : rows[k] = rows[i]})

Unsent == CountIn("start") + CountIn("lookup")

\* C24: rows reach the report only through the results channel: the channel
\* is closed only when no goroutine is left (so a goroutine that still has
\* to send finds it open), it never holds more rows than the upload has data
\* rows and has a free slot for every goroutine that still has to send, every
\* started row is in a goroutine that has yet to send, in the channel or in
\* the report, and the report changes only by the collector's move of the
\* head of the channel to its end.
C24_ChannelIsSafe ==
    /\ [](/\ Len(results) <= Len(rows)
          /\ closed => (workers = EmptyBag /\ wg = 0 /\ spawned = Len(rows))
          /\ Unsent > 0 => (~closed /\ Len(results) + Unsent <= Len(rows))
          /\ Len(out) + Len(results) + Unsent = spawned)
    /\ [][out' # out =>
            /\ ppc = "collect"
            /\ results # <<>>
            /\ out' = Append(out, Head(results))
            /\ results' = Tail(results)
            /\ workers' = workers]_vars

\* C24 witness: the channel is closed while it holds a row for every data
\* row of an upload of more than 10 rows, every slot in use.
C24_Witness ==
    /\ closed
    /\ Len(rows) > maxConcurrent
    /\ Len(results) = Len(rows)
    /\ workers = EmptyBag
    /\ out = <<>>

\* the answer had no value that parses for this rate
Unparsed(str) == ~ParseFloat(TrimSpace(str)).ok

\* the report row of a row whose lookup gave the three rates
RatedRow(row, local, county, state) ==
    LET charge == ParseFloat(row[4]).val
    IN  row \o << Sprintf2f(charge * local, Scale * Scale),
                  Sprintf2f(charge * county, Scale * Scale),
                  Sprintf2f(charge * state, Scale * Scale) >>

\* C25: in the parallel generation a lookup fails only when its request is
\* not sent or its answer cannot be read as a document; a rate that is
\* missing from the answer or does not parse is replaced by 0.02 (local),
\* 0.005 (county) or 0.0625 (state), and the row is in the report with the
\* amounts computed from these rates, not with an error.
C25_PlaceholderRates ==
    ppc = "done" =>
        \A i \in 1..Len(rows) :
            BeforeLookup(rows[i]) = "lookup" =>
                LET resp == HTTPPost(rows[i][3])
                    r    == scrapeTaxRatesHTML(rows[i][3])
                IN  /\ r.err # NoErr <=> (~resp.sent \/ ~resp.doc)
                    /\ r.err # NoErr =>
                          \E k \in 1..Len(out) : IsErrorRow(out[k], rows[i])
                    /\ r.err = NoErr =>
                          /\ Unparsed(resp.local)
                               => r.local = (2 * Scale) \div 100
                          /\ Unparsed(resp.county)
                               => r.county = (5 * Scale) \div 1000
                          /\ Unparsed(resp.state)
                               => r.state = (625 * Scale) \div 10000
                          /\ ~Unparsed(resp.local)
                               => r.local = ParseFloat(TrimSpace(resp.local)).val
                          /\ ~Unparsed(resp.county)
                               => r.county = ParseFloat(TrimSpace(resp.county)).val
                          /\ ~Unparsed(resp.state)
                               => r.state = ParseFloat(TrimSpace(resp.state)).val
                          /\ \E k \in 1..Len(out) :
                                out[k] = RatedRow(rows[i], r.local, r.county, r.state)
                          /\ \A k \in 1..Len(out) : ~IsErrorRow(out[k], rows[i])

\* C25 witness: a finished report with a row whose answer had a local and a
\* state rate and no county rate: its county amount is the charge times
\* 0.005; and a row whose answer could not be read, which has an error.
C25_Witness ==
    /\ ppc = "done"
    /\ \E i, j \in 1..Len(rows) :
          /\ BeforeLookup(rows[i]) = "lookup"
          /\ BeforeLookup(rows[j]) = "lookup"
          /\ ~Unparsed(HTTPPost(rows[i][3]).local)
          /\ Unparsed(HTTPPost(rows[i][3]).county)
          /\ ~Unparsed(HTTPPost(rows[i][3]).state)
          /\ HTTPPost(rows[j][3]).sent
          /\ ~HTTPPost(rows[j][3]).doc
          /\ \E k \in 1..Len(out) :
                /\ IsPrefix(rows[i], out[k])
                /\ out[k][Len(rows[i]) + 2]
                     = Sprintf2f(ParseFloat(rows[i][4]).val * ((5 * Scale) \div 1000),
                                 Scale * Scale)
                /\ out[k][Len(rows[i]) + 2] # <<"0", ".", "0", "0">>
          /\ \E k \in 1..Len(out) : IsErrorRow(out[k], rows[j])

=============================================================================
